---- MODULE Spec2Model ----
(***************************************************************************)
(* A model of the RACAG chunk extractor (racag/chunking/code_chunker.py)   *)
(* and of the RACAG query command (racag/query_cli.py).                    *)
(*                                                                         *)
(* Text is modelled at the level the code works at: a file on disk is a    *)
(* sequence of bytes, the decoded source `code` is a sequence of Unicode   *)
(* code points, and the buffer handed to the parser is the UTF-8 encoding  *)
(* of `code`.  The tree-sitter parser is an external capability: it is a   *)
(* deterministic function from buffers to syntax trees, fixed in the       *)
(* initial state, whose nodes lie on character boundaries of the buffer.   *)
(***************************************************************************)
EXTENDS Integers, Sequences, FiniteSets, TLC

VARIABLES
    disk,       \* path -> the bytes of the file at that path
    parses,     \* buffer -> the root node tree-sitter returns for it
    parser,     \* the module-level Parser object shared by all calls
    call,       \* the extract_code_chunks call in progress, or idle
    ret,        \* path -> how the last call on that path ended
    argv,       \* the parsed arguments of the query command
    retrieval,  \* what embed_query and semantic_search answer in this run
    cli         \* the query command: where main is, its result and its output

chunker_vars == <<disk, parses, parser, call, ret>>
query_vars == <<argv, retrieval, cli>>
vars == <<disk, parses, parser, call, ret, argv, retrieval, cli>>

(***************************************************************************)
(* Bounds of the model.                                                    *)
(***************************************************************************)
\* characters of a file after its blank-line preamble, and syntax nodes below
\* the root, where the trees vary (Spec)
MaxBody == 2
MaxNodes == 2
\* the same where the bytes vary (SpecText)
MaxTextBody == 2
MaxTextNodes == 1
\* the same where two files are extracted in turn (SpecIdem)
MaxIdemBody == 1
MaxIdemNodes == 1
\* records the retrieval layer returns to one query (SpecQuery)
MaxResults == 11
\* blank lines that open every file, so that row numbers cross 9 -> 10
PreambleLines == 9

(***************************************************************************)
(* Sequences.                                                              *)
(***************************************************************************)
RECURSIVE Flatten(_)
Flatten(ss) == IF ss = <<>> THEN <<>> ELSE Head(ss) \o Flatten(Tail(ss))

SeqsUpTo(S, n) == UNION {[1..k -> S] : k \in 0..n}

Min(a, b) == IF a <= b THEN a ELSE b

\* Python's s[i:j] for 0 <= i, 0 <= j: out-of-range bounds are clamped
PySlice(s, i, j) ==
    LET lo == Min(i, Len(s))
        hi == Min(j, Len(s))
    IN  IF lo >= hi THEN <<>> ELSE SubSeq(s, lo + 1, hi)

(***************************************************************************)
(* UTF-8, for code points below U+10000: sequences of one, two and three   *)
(* bytes.                                                                  *)
(***************************************************************************)
Placeholder == <<65533>>

IsAscii(b) == b < 128
IsLead2(b) == b \in 194..223
IsLead3(b) == b \in 224..239
IsCont(b) == b \in 128..191

\* the second byte a three-byte lead admits (no overlong form, no surrogate)
IsSecondOf3(lead, b) ==
    /\ IsCont(b)
    /\ lead = 224 => b >= 160
    /\ lead = 237 => b <= 159

\* bytes(code, "utf8")
EncodeChar(cp) ==
    IF cp < 128 THEN <<cp>>
    ELSE IF cp < 2048 THEN <<192 + (cp \div 64), 128 + (cp % 64)>>
    ELSE <<224 + (cp \div 4096), 128 + ((cp \div 64) % 64), 128 + (cp % 64)>>

RECURSIVE Utf8Encode(_)
Utf8Encode(s) ==
    IF s = <<>> THEN <<>> ELSE EncodeChar(Head(s)) \o Utf8Encode(Tail(s))

\* the length of the well-formed sequence that starts at bs[1], 0 if none does
WellFormedAt(bs) ==
    IF IsAscii(bs[1]) THEN 1
    ELSE IF IsLead2(bs[1]) /\ Len(bs) >= 2 /\ IsCont(bs[2]) THEN 2
    ELSE IF /\ IsLead3(bs[1]) /\ Len(bs) >= 3
            /\ IsSecondOf3(bs[1], bs[2]) /\ IsCont(bs[3]) THEN 3
    ELSE 0

DecodeAt(bs) ==
    IF WellFormedAt(bs) = 1 THEN bs[1]
    ELSE IF WellFormedAt(bs) = 2 THEN (bs[1] - 192) * 64 + (bs[2] - 128)
    ELSE (bs[1] - 224) * 4096 + (bs[2] - 128) * 64 + (bs[3] - 128)

\* the bytes one U+FFFD stands for when no well-formed sequence starts at
\* bs[1]: the longest prefix of one
IllFormedAt(bs) ==
    IF IsLead3(bs[1]) /\ Len(bs) >= 2 /\ IsSecondOf3(bs[1], bs[2]) THEN 2 ELSE 1

\* bytes.decode("utf-8"): FALSE stands for UnicodeDecodeError
RECURSIVE Utf8Valid(_)
Utf8Valid(bs) ==
    IF bs = <<>> THEN TRUE
    ELSE LET n == WellFormedAt(bs)
         IN  n > 0 /\ Utf8Valid(SubSeq(bs, n + 1, Len(bs)))

\* bytes.decode("utf-8", errors="replace"), which is the strict decoding of
\* valid input: an ill-formed sequence becomes U+FFFD
RECURSIVE Utf8Decode(_)
Utf8Decode(bs) ==
    IF bs = <<>> THEN <<>>
    ELSE LET n == WellFormedAt(bs)
         IN  IF n > 0
             THEN <<DecodeAt(bs)>> \o Utf8Decode(SubSeq(bs, n + 1, Len(bs)))
             ELSE Placeholder \o Utf8Decode(SubSeq(bs, IllFormedAt(bs) + 1, Len(bs)))

(***************************************************************************)
(* Paths (pathlib.Path).                                                   *)
(***************************************************************************)
PathName(p) == p.stem \o p.suffix
PathStem(p) == p.stem
PathStr(p) == p.dir \o "/" \o PathName(p)

(***************************************************************************)
(* The syntax trees of the parser.  A shape is a forest over character     *)
(* positions lo..hi: ordered, non-overlapping siblings, every child inside *)
(* its parent.  The parser's node carries the byte offsets and the         *)
(* (row, column) points of those positions in the buffer.                  *)
(***************************************************************************)
AllowList == <<"class_declaration", "struct_declaration", "function_declaration">>

\* the node kinds of the trees of the model: the allow-list and one other
NodeKinds == {"class_declaration", "struct_declaration", "function_declaration",
              "statements"}
FewKinds == {"function_declaration", "statements"}

RECURSIVE ShapeSize(_)
ShapeSize(f) ==
    IF f = <<>> THEN 0
    ELSE 1 + ShapeSize(Head(f).children) + ShapeSize(Tail(f))

RECURSIVE Shapes(_, _, _, _)
Shapes(kinds, lo, hi, k) ==
    IF k = 0 \/ lo >= hi THEN {<<>>}
    ELSE {<<>>} \cup UNION { UNION { UNION {
            { <<[type |-> t, s |-> s, e |-> e, children |-> ch]>> \o rest :
                rest \in Shapes(kinds, e, hi, k - 1 - ShapeSize(ch)), t \in kinds }
            : ch \in Shapes(kinds, s, e, k - 1) }
            : e \in (s + 1)..hi }
            : s \in lo..(hi - 1) }

\* byte offset, row and column (in bytes) of character position i of code
RECURSIVE ByteOffset(_, _)
ByteOffset(code, i) ==
    IF i = 0 THEN 0 ELSE Len(EncodeChar(code[i])) + ByteOffset(code, i - 1)

RECURSIVE RowOf(_, _)
RowOf(code, i) ==
    IF i = 0 THEN 0
    ELSE (IF code[i] = 10 THEN 1 ELSE 0) + RowOf(code, i - 1)

\* the position at which the line of position i begins
RECURSIVE LineStart(_, _)
LineStart(code, i) ==
    IF i = 0 \/ code[i] = 10 THEN i ELSE LineStart(code, i - 1)

ColumnOf(code, i) == ByteOffset(code, i) - ByteOffset(code, LineStart(code, i))

\* what the parser knows of each character position of code
Positions(code) ==
    [i \in 0..Len(code) |->
        [byte |-> ByteOffset(code, i),
         point |-> <<RowOf(code, i), ColumnOf(code, i)>>]]

RECURSIVE NodesOf(_, _)
NodesOf(pos, f) ==
    IF f = <<>> THEN <<>>
    ELSE <<[type |-> Head(f).type,
            start_byte |-> pos[Head(f).s].byte,
            end_byte |-> pos[Head(f).e].byte,
            start_point |-> pos[Head(f).s].point,
            end_point |-> pos[Head(f).e].point,
            children |-> NodesOf(pos, Head(f).children)]>>
         \o NodesOf(pos, Tail(f))

RootNode(pos, n, f) ==
    [type |-> "source_file",
     start_byte |-> 0,
     end_byte |-> pos[n].byte,
     start_point |-> <<0, 0>>,
     end_point |-> pos[n].point,
     children |-> NodesOf(pos, f)]

\* ParserParse with a fault: the parser goes on from the input of its last parse
ParserParseReusing(psr, buffer) ==
    IF psr.input # <<>> THEN parses[psr.input] ELSE parses[buffer]

\* parser.parse(buffer): the tree depends on the buffer alone
ParserParse(psr, buffer) == parses[buffer]

(***************************************************************************)
(* extract_code_chunks: the source loader.                                 *)
(***************************************************************************)
IOAnswers == {"ok", "OSError"}

\* path.read_text(encoding="utf-8"): "strict" decoding
ReadTextStrict(bytes) ==
    IF Utf8Valid(bytes) THEN [ok |-> TRUE, text |-> Utf8Decode(bytes)]
    ELSE [ok |-> FALSE, text |-> <<>>]

\* ReadTextReplace with a fault: errors="ignore", the invalid bytes are dropped
IsNotPlaceholder(c) == c # 65533
ReadTextIgnore(bytes) == SelectSeq(Utf8Decode(bytes), IsNotPlaceholder)

\* path.read_text(encoding="utf-8", errors="replace")
ReadTextReplace(bytes) == Utf8Decode(bytes)

\* line 23, without the warning sign that opens the message
Diagnostic(p) == "Non-UTF8 bytes replaced in " \o PathStr(p)

Raised(exc) == [kind |-> "raised", exc |-> exc, chunks |-> <<>>, printed |-> <<>>]
Returned(chunks, printed) ==
    [kind |-> "returned", exc |-> "", chunks |-> chunks, printed |-> printed]
NotCalled == [kind |-> "none", exc |-> "", chunks |-> <<>>, printed |-> <<>>]

Idle == [pc |-> "idle", path |-> <<>>, code |-> <<>>, printed |-> <<>>]
Loaded(p, code, printed) ==
    [pc |-> "loaded", path |-> p, code |-> code, printed |-> printed]

\* lines 17-23; io1 and io2 are what the file system answers to the first
\* read and to the read of the except branch
Load(p, io1, io2) ==
    /\ call.pc = "idle"
    \* no second read, no second answer
    /\ (io1 # "ok" \/ ReadTextStrict(disk[p]).ok) => io2 = "ok"
    /\ LET strict == ReadTextStrict(disk[p])
       IN  IF io1 # "ok"
           THEN /\ ret' = [ret EXCEPT ![p] = Raised(io1)]
                /\ call' = call
           ELSE IF strict.ok
           THEN /\ call' = Loaded(p, strict.text, <<>>)
                /\ ret' = ret
           ELSE IF io2 # "ok"
           THEN /\ ret' = [ret EXCEPT ![p] = Raised(io2)]
                /\ call' = call
           ELSE /\ call' = Loaded(p, ReadTextReplace(disk[p]), <<Diagnostic(p)>>)
                /\ ret' = ret
    /\ UNCHANGED <<disk, parses, parser>>
    /\ UNCHANGED query_vars

(***************************************************************************)
(* extract_code_chunks: the chunk extractor.                               *)
(***************************************************************************)
InAllowList(type) == \E i \in 1..Len(AllowList) : AllowList[i] = type

\* get_text(node)
GetText(code, node) == PySlice(code, node.start_byte, node.end_byte)

ChunkId(p, node) ==
    PathName(p) \o "::" \o node.type \o "_" \o ToString(node.start_point[1])

\* StartLine with a fault: the row as the parser counts it
StartLineZeroBased(node) == node.start_point[1]

StartLine(node) == node.start_point[1] + 1
EndLine(node) == node.end_point[1] + 1

\* node.type.replace("_declaration", ""), on the kinds of the model
ChunkType(type) ==
    CASE type = "class_declaration" -> "class"
      [] type = "struct_declaration" -> "struct"
      [] type = "function_declaration" -> "function"
      [] OTHER -> type

LinesOf(start_line, end_line) == ToString(start_line) \o "-" \o ToString(end_line)

MakeChunk(p, code, node) ==
    [chunk_id |-> ChunkId(p, node),
     chunk_text |-> GetText(code, node),
     language |-> "swift",
     framework |-> "swiftui",
     module |-> PathStem(p),
     function |-> "None",
     file_path |-> PathStr(p),
     start_line |-> StartLine(node),
     end_line |-> EndLine(node),
     tags |-> <<ChunkType(node.type)>>,
     lines |-> LinesOf(StartLine(node), EndLine(node))]

\* ChildrenToVisit with a fault: a matched node is not descended into
ChildrenUnlessMatched(node) ==
    IF InAllowList(node.type) THEN <<>> ELSE node.children

\* ChildrenToVisit with a fault: the last child first
ChildrenReversed(node) ==
    [i \in 1..Len(node.children) |-> node.children[Len(node.children) + 1 - i]]

\* the children the loop of line 55 visits, in order
ChildrenToVisit(node) == node.children

RECURSIVE recurse(_, _, _, _)
RECURSIVE recurseEach(_, _, _, _)
recurse(p, code, node, chunks) ==
    LET appended == IF InAllowList(node.type)
                    THEN Append(chunks, MakeChunk(p, code, node))
                    ELSE chunks
    IN  recurseEach(p, code, ChildrenToVisit(node), appended)

recurseEach(p, code, children, chunks) ==
    IF children = <<>> THEN chunks
    ELSE recurseEach(p, code, Tail(children), recurse(p, code, Head(children), chunks))

\* lines 24-59
Chunk ==
    /\ call.pc = "loaded"
    /\ LET buffer == Utf8Encode(call.code)
           root_node == ParserParse(parser, buffer)
           chunks == recurse(call.path, call.code, root_node, <<>>)
       IN  \* the parser is left holding the input of this parse
           /\ parser' = [parser EXCEPT !.input = buffer]
           /\ ret' = [ret EXCEPT ![call.path] = Returned(chunks, call.printed)]
    /\ call' = Idle
    /\ UNCHANGED <<disk, parses>>
    /\ UNCHANGED query_vars

(***************************************************************************)
(* Initial states: the files on disk and the parser's answers.             *)
(***************************************************************************)
Preamble == [i \in 1..PreambleLines |-> 10]

\* the buffer extract_code_chunks hands to the parser for these bytes
BufferOf(bytes) == Utf8Encode(Utf8Decode(bytes))

\* what files are made of: a newline, a letter, a two-byte character, a lead
\* byte with nothing after it, a byte that is never valid
Newline == <<10>>
LetterA == <<97>>
EAcute == <<195, 169>>
LoneLead == <<195>>
BadByte == <<255>>

\* the files of the model: the empty file, and the files that open with the
\* preamble
Files(units, maxBody) ==
    {<<>>} \cup {Preamble \o Flatten(us) : us \in SeqsUpTo(units, maxBody)}

\* the shapes over the characters that follow the preamble, by their number
ShapesAfterPreamble(kinds, maxBody, maxNodes) ==
    [n \in 0..maxBody |-> Shapes(kinds, PreambleLines, PreambleLines + n, maxNodes)]

TreeShapes == ShapesAfterPreamble(NodeKinds, MaxBody, MaxNodes)
TextShapes == ShapesAfterPreamble(FewKinds, MaxTextBody, MaxTextNodes)
IdemShapes == ShapesAfterPreamble(FewKinds, MaxIdemBody, MaxIdemNodes)

\* the shapes of the trees the parser may return for a file
ShapesFor(shapes, bytes) ==
    IF bytes = <<>> THEN {<<>>} ELSE shapes[Len(Utf8Decode(bytes)) - PreambleLines]

\* the tree of that shape over the file
TreeOver(bytes, shape) ==
    LET code == Utf8Decode(bytes)
    IN  RootNode(Positions(code), Len(code), shape)

PathA == [dir |-> "Sources", stem |-> "Login", suffix |-> ".swift"]
PathB == [dir |-> "Sources", stem |-> "Session", suffix |-> ".swift"]

InitWith(paths, files, shapes, maxBody) ==
    \E bytes \in [paths -> files] :
    \E shape \in [paths -> shapes[maxBody]] :
        /\ \A p \in paths : shape[p] \in ShapesFor(shapes, bytes[p])
        \* one buffer, one tree
        /\ \A p, q \in paths :
              BufferOf(bytes[p]) = BufferOf(bytes[q]) => shape[p] = shape[q]
        /\ disk = bytes
        /\ parses = [b \in {BufferOf(bytes[p]) : p \in paths} |->
                        LET p == CHOOSE q \in paths : BufferOf(bytes[q]) = b
                        IN  TreeOver(bytes[p], shape[p])]
        /\ parser = [language |-> "swift", input |-> <<>>]
        /\ call = Idle
        /\ ret = [p \in paths |-> NotCalled]
        /\ argv = <<>>
        /\ retrieval = <<>>
        /\ cli = [pc |-> "none"]

\* one file, every tree over plain text
Init == InitWith({PathA}, Files({Newline, LetterA}, MaxBody), TreeShapes, MaxBody)

\* one file, every text with few nodes
InitText ==
    InitWith({PathA}, Files({LetterA, EAcute, LoneLead, BadByte}, MaxTextBody),
             TextShapes, MaxTextBody)

\* two files
InitIdem ==
    InitWith({PathA, PathB}, Files({LetterA}, MaxIdemBody), IdemShapes, MaxIdemBody)

Next ==
    \/ \E p \in DOMAIN disk, io1 \in IOAnswers, io2 \in IOAnswers : Load(p, io1, io2)
    \/ Chunk

Spec == Init /\ [][Next]_vars
SpecText == InitText /\ [][Next]_vars
SpecIdem == InitIdem /\ [][Next]_vars

(***************************************************************************)
(* What the claims speak of: the declarations of a tree in document order, *)
(* told from the tree alone.  A node is named by its path, the child       *)
(* indices that lead to it from the root.                                  *)
(***************************************************************************)
ClaimedKinds == {"class_declaration", "struct_declaration", "function_declaration"}

\* the tree the parser returns for the file at p
TreeOf(p) == parses[BufferOf(disk[p])]

RECURSIVE NodePaths(_)
NodePaths(node) ==
    {<<>>} \cup UNION { {<<i>> \o q : q \in NodePaths(node.children[i])}
                        : i \in 1..Len(node.children) }

RECURSIVE NodeAt(_, _)
NodeAt(node, path) ==
    IF path = <<>> THEN node ELSE NodeAt(node.children[Head(path)], Tail(path))

\* a is a proper ancestor of d
Ancestor(a, d) == Len(a) < Len(d) /\ SubSeq(d, 1, Len(a)) = a

\* a comes before b in depth-first pre-order
Before(a, b) ==
    \/ Ancestor(a, b)
    \/ \E i \in 1..Min(Len(a), Len(b)) :
          /\ SubSeq(a, 1, i - 1) = SubSeq(b, 1, i - 1)
          /\ a[i] < b[i]

DeclPaths(root) == {q \in NodePaths(root) : NodeAt(root, q).type \in ClaimedKinds}

InPreOrder(S) ==
    [i \in 1..Cardinality(S) |->
        CHOOSE q \in S : Cardinality({r \in S : Before(r, q)}) = i - 1]

DeclsOf(p) == LET order == InPreOrder(DeclPaths(TreeOf(p)))
              IN  [i \in 1..Len(order) |-> NodeAt(TreeOf(p), order[i])]

\* c is a chunk of node n of the file at p: its kind, its first and last row
IsChunkOf(p, c, n) ==
    /\ c.chunk_id = PathName(p) \o "::" \o n.type \o "_" \o ToString(n.start_point[1])
    /\ c.end_line = n.end_point[1] + 1

Paths == DOMAIN disk
HasReturned(p) == ret[p].kind = "returned"

\* C1: the chunk_id values of the chunks one call returns are pairwise
\* distinct, also when two declarations of one kind start on the same line.
C1_ChunkIdsDistinct ==
    \A p \in Paths : HasReturned(p) =>
        \A i, j \in 1..Len(ret[p].chunks) :
            i # j => ret[p].chunks[i].chunk_id # ret[p].chunks[j].chunk_id

\* C2: every chunk_text is the text between its node's start and end byte
\* offsets in the UTF-8 buffer handed to the parser, whatever the characters
\* before or inside the node.
C2_ChunkTextExact ==
    \A p \in Paths : HasReturned(p) =>
        LET buffer == BufferOf(disk[p])
            decls == DeclsOf(p)
        IN  \A i \in 1..Min(Len(decls), Len(ret[p].chunks)) :
                ret[p].chunks[i].chunk_text =
                    Utf8Decode(SubSeq(buffer, decls[i].start_byte + 1, decls[i].end_byte))

\* C5: when a declaration X has a declaration Y among its descendants, the
\* result holds a chunk for X and another for Y, and the lines of Y's chunk lie
\* within those of X's.
C5_NestedChunks ==
    \A p \in Paths : HasReturned(p) =>
        LET decls == DeclPaths(TreeOf(p))
            chunks == ret[p].chunks
        IN  \A x, y \in decls : Ancestor(x, y) =>
                \E i, j \in 1..Len(chunks) :
                    /\ i # j
                    /\ IsChunkOf(p, chunks[i], NodeAt(TreeOf(p), x))
                    /\ IsChunkOf(p, chunks[j], NodeAt(TreeOf(p), y))
                    /\ chunks[i].start_line <= chunks[j].start_line
                    /\ chunks[j].end_line <= chunks[i].end_line

C5_Witness ==
    \E p \in Paths :
        /\ HasReturned(p)
        /\ \E x, y \in DeclPaths(TreeOf(p)) :
              /\ Ancestor(x, y)
              /\ NodeAt(TreeOf(p), x).end_point[1] > NodeAt(TreeOf(p), y).end_point[1]

C8_Lines ==
    \A p \in Paths : HasReturned(p) =>
        LET decls == DeclsOf(p)
            chunks == ret[p].chunks
        IN  \A i \in 1..Min(Len(decls), Len(chunks)) :
                /\ chunks[i].start_line = decls[i].start_point[1] + 1
                /\ chunks[i].end_line = decls[i].end_point[1] + 1
                /\ chunks[i].start_line <= chunks[i].end_line
                /\ chunks[i].lines =
                       ToString(chunks[i].start_line) \o "-" \o ToString(chunks[i].end_line)
                /\ chunks[i].chunk_id =
                       PathName(p) \o "::" \o decls[i].type \o "_"
                           \o ToString(chunks[i].start_line - 1)

\* a declaration that starts at source line 10 and ends on a later line
C8_Witness ==
    \E p \in Paths :
        /\ HasReturned(p)
        /\ \E i \in 1..Len(ret[p].chunks) :
              /\ ret[p].chunks[i].start_line = 10
              /\ ret[p].chunks[i].end_line > 10
              /\ ret[p].chunks[i].chunk_id = "Login.swift::function_declaration_9"

RECURSIVE IsSubseq(_, _)
IsSubseq(a, b) ==
    IF a = <<>> THEN TRUE
    ELSE IF b = <<>> THEN FALSE
    ELSE IF Head(a) = Head(b) THEN IsSubseq(Tail(a), Tail(b))
    ELSE IsSubseq(a, Tail(b))

IsPlaceholder(c) == c = 65533
IsText(c) == c # 65533

\* C9: a file whose strict decoding fails is decoded with a placeholder for
\* what was invalid, one diagnostic names it, and the extraction goes on to
\* return its chunks; a read that fails, the first or the one of the fallback,
\* ends the call with that error and without a chunk list.
C9_Loader ==
    [][/\ \A p \in Paths, io1 \in IOAnswers, io2 \in IOAnswers :
            Load(p, io1, io2) =>
                LET valid == Utf8Valid(disk[p])
                    readFails == io1 # "ok" \/ (~valid /\ io2 # "ok")
                IN  IF readFails
                    THEN /\ call'.pc = "idle"
                         /\ ret'[p].kind = "raised"
                         /\ ret'[p].exc = "OSError"
                         /\ ret'[p].chunks = <<>>
                    ELSE /\ call'.pc = "loaded" /\ call'.path = p
                         /\ ret' = ret
                         /\ IF valid
                            THEN /\ call'.printed = <<>>
                                 /\ Utf8Encode(call'.code) = disk[p]
                            ELSE /\ call'.printed =
                                        <<"Non-UTF8 bytes replaced in " \o PathStr(p)>>
                                 /\ SelectSeq(call'.code, IsPlaceholder) # <<>>
                                 /\ IsSubseq(Utf8Encode(SelectSeq(call'.code, IsText)),
                                             disk[p])
       /\ Chunk =>
            /\ ret'[call.path].kind = "returned"
            /\ ret'[call.path].printed = call.printed
            /\ Len(ret'[call.path].chunks) = Cardinality(DeclPaths(TreeOf(call.path)))
      ]_vars

\* an extraction that fell back to the lossy decoding and returned a chunk
C9_Witness ==
    \E p \in Paths :
        /\ HasReturned(p)
        /\ ret[p].printed # <<>>
        /\ ret[p].chunks # <<>>
        /\ ~Utf8Valid(disk[p])

(***************************************************************************)
(* The query command (racag/query_cli.py).  embed_query and                *)
(* semantic_search are collaborators: each either returns a value or       *)
(* raises, and the run's answers are fixed in the initial state.           *)
(***************************************************************************)
DisplayCap == 10

Value(v) == [kind |-> "value", value |-> v]
NoneValue == [kind |-> "none"]
Raise(type, msg) == [kind |-> "raise", type |-> type, msg |-> msg]

\* embed_query(question)
EmbedQuery(question) == retrieval.embed

\* semantic_search(query_embedding, top_k=top_k)
SemanticSearch(query_embedding, top_k) == retrieval.search

\* len(results)
PyLen(v) ==
    IF v.kind = "value" THEN Value(Len(v.value))
    ELSE Raise("TypeError", "object of type 'NoneType' has no len()")

\* IsException with a fault: except ValueError
IsValueError(type) == type = "ValueError"

\* the exception classes `except Exception` catches, among those of the model
IsException(type) == type \in {"ValueError", "RuntimeError", "TypeError"}

\* dict.get(key, default)
DictGet(d, key, default) == IF key \in DOMAIN d THEN d[key] ELSE default

\* lines 37-50: the body of the try
TryBody(question, top_k) ==
    LET query_embedding == EmbedQuery(question)
        results == SemanticSearch(query_embedding.value, top_k)
        n == PyLen(results)
    IN  IF query_embedding.kind = "raise" THEN query_embedding
        ELSE IF results.kind = "raise" THEN results
        ELSE IF n.kind = "raise" THEN n
        ELSE Value([success |-> TRUE,
                    query |-> question,
                    results_count |-> n.value,
                    results |-> results.value,
                    message |-> "Retrieved " \o ToString(n.value) \o " relevant chunks"])

\* lines 52-60: the except branch
Failure(question, e) ==
    [success |-> FALSE,
     query |-> question,
     results_count |-> 0,
     results |-> <<>>,
     error |-> e.msg,
     message |-> "Query failed: " \o e.msg]

\* query_racag_cli(question, top_k): the value it returns, or what it raises
QueryRacagCli(question, top_k) ==
    LET body == TryBody(question, top_k)
    IN  IF body.kind = "raise" /\ IsException(body.type)
        THEN Value(Failure(question, body))
        ELSE body

\* f"{x:.3f}" for a score given in thousandths
Fixed3(milli) ==
    LET frac == milli % 1000
    IN  ToString(milli \div 1000) \o "." \o
        (IF frac < 10 THEN "00" ELSE IF frac < 100 THEN "0" ELSE "") \o ToString(frac)

\* line 102
RankLine(i, chunk) ==
    ToString(i) \o ". [" \o Fixed3(DictGet(chunk, "score", 0)) \o "] " \o
    DictGet(DictGet(chunk, "metadata", <<>>), "file_path", "unknown")

\* line 103
LinesLine(chunk) ==
    "   Lines " \o DictGet(DictGet(chunk, "metadata", <<>>), "lines", "?-?")

\* Displayed with a fault: no cap
DisplayedAll(results) == results

\* result["results"][:10]
Displayed(results) == PySlice(results, 0, DisplayCap)

\* lines 98-104
Listing(result) ==
    <<"Query: " \o result.query,
      "Results: " \o ToString(result.results_count) \o "\n">> \o
    Flatten([i \in 1..Len(Displayed(result.results)) |->
                <<RankLine(i, Displayed(result.results)[i]),
                  LinesLine(Displayed(result.results)[i]),
                  "">>])

\* json.dumps(result, indent=2): one document that holds the whole result
JsonDumps(result) == [json |-> result]

\* ExitStatus with a fault: sys.exit(0)
ExitStatusZero(result) == 0

\* line 109
ExitStatus(result) == IF result.success THEN 0 ELSE 1

\* line 90
RunQuery ==
    /\ cli.pc = "start"
    /\ LET r == QueryRacagCli(argv.query, argv.top_k)
       IN  IF r.kind = "raise"
           THEN cli' = [pc |-> "crashed", status |-> 1, stdout |-> <<>>,
                        stderr |-> <<"Traceback", r.type \o ": " \o r.msg>>]
           ELSE cli' = [pc |-> "queried", result |-> r.value]
    /\ UNCHANGED <<argv, retrieval>>
    /\ UNCHANGED chunker_vars

\* lines 93-109
Output ==
    /\ cli.pc = "queried"
    /\ LET result == cli.result
       IN  IF argv.format = "json"
           THEN cli' = [pc |-> "exited", result |-> result,
                        stdout |-> <<JsonDumps(result)>>, stderr |-> <<>>,
                        status |-> ExitStatus(result)]
           ELSE IF result.success
           THEN cli' = [pc |-> "exited", result |-> result,
                        stdout |-> Listing(result), stderr |-> <<>>,
                        status |-> ExitStatus(result)]
           ELSE cli' = [pc |-> "exited", result |-> result,
                        stdout |-> <<>>,
                        stderr |-> <<"Error: " \o result.message>>,
                        status |-> 1]
    /\ UNCHANGED <<argv, retrieval>>
    /\ UNCHANGED chunker_vars

Questions == {"authentication flow", ""}
TopKs == {5, 20}
Formats == {"json", "text"}

\* the records of the index: one as the chunk schema gives it, one without a
\* score and without the lines of its metadata
FullRecord ==
    [score |-> 912, metadata |-> [file_path |-> "Sources/Login.swift", lines |-> "10-14"]]
BareRecord == [metadata |-> [file_path |-> "Sources/Session.swift"]]

EmbedAnswers == {Value(<<1, 0>>), Raise("ValueError", "empty query")}
SearchAnswers ==
    {Raise("RuntimeError", "index not built"), NoneValue}
        \cup {Value(rs) : rs \in SeqsUpTo({FullRecord, BareRecord}, MaxResults)}

InitQuery ==
    /\ argv \in [query : Questions, top_k : TopKs, format : Formats]
    /\ retrieval \in [embed : EmbedAnswers, search : SearchAnswers]
    \* semantic_search is not called when embed_query raises
    /\ retrieval.embed.kind = "raise" => retrieval.search = NoneValue
    /\ cli = [pc |-> "start"]
    /\ disk = <<>>
    /\ parses = <<>>
    /\ parser = [language |-> "swift", input |-> <<>>]
    /\ call = Idle
    /\ ret = <<>>

NextQuery == RunQuery \/ Output

SpecQuery == InitQuery /\ [][NextQuery]_vars

HasResult == cli.pc \in {"queried", "exited"}

\* C3: query_racag_cli does not raise: when embed_query or semantic_search
\* raises, or the result of the search has no length, it returns a failure
\* with the question, a count of 0, no results and the message of the error;
\* when both succeed it returns a success for the question.
C3_NeverRaises ==
    cli.pc # "start" =>
        /\ HasResult
        /\ LET msg == IF retrieval.embed.kind = "raise" THEN retrieval.embed.msg
                      ELSE IF retrieval.search.kind = "raise" THEN retrieval.search.msg
                      ELSE "object of type 'NoneType' has no len()"
           IN  IF retrieval.embed.kind = "value" /\ retrieval.search.kind = "value"
               THEN /\ cli.result.success = TRUE
                    /\ cli.result.query = argv.query
               ELSE /\ cli.result.success = FALSE
                    /\ cli.result.query = argv.query
                    /\ cli.result.results_count = 0
                    /\ cli.result.results = <<>>
                    /\ cli.result.error = msg

C3_Witness ==
    /\ HasResult
    /\ retrieval.embed.kind = "value"
    /\ retrieval.search.kind = "none"
    /\ cli.result.success = FALSE

\* C4: main exits with status 0 when the result is a success and with status 1
\* when it is not, in the json and in the text format; a failure in the text
\* format prints its message to stderr and nothing to stdout.
C4_ExitStatus ==
    cli.pc = "exited" =>
        /\ cli.status = (IF cli.result.success THEN 0 ELSE 1)
        /\ (argv.format = "text" /\ ~cli.result.success) =>
              /\ cli.stderr = <<"Error: Query failed: " \o cli.result.error>>
              /\ cli.stdout = <<>>

C4_Witness ==
    /\ cli.pc = "exited"
    /\ argv.format = "json"
    /\ ~cli.result.success
    /\ cli.status = 1

\* C10: a success carries the records of the retrieval layer as returned, in
\* their order and however many top_k asked for, with results_count their
\* number; the text format lists the first min(10, results_count) of them,
\* ranked from 1 in that order, under the full count; the json format holds
\* them all.
C10_Results ==
    (HasResult /\ cli.result.success) =>
        LET records == retrieval.search.value
            shown == Min(10, Len(records))
        IN  /\ cli.result.results = records
            /\ cli.result.results_count = Len(records)
            /\ (cli.pc = "exited" /\ argv.format = "text") =>
                  /\ Len(cli.stdout) = 2 + 3 * shown
                  /\ cli.stdout[2] = "Results: " \o ToString(Len(records)) \o "\n"
                  /\ \A i \in 1..shown :
                        cli.stdout[3 * i] = RankLine(i, records[i])
            /\ (cli.pc = "exited" /\ argv.format = "json") =>
                  /\ Len(cli.stdout) = 1
                  /\ cli.stdout[1].json.results = records

\* more records than the display cap and than top_k, in an order that is not
\* that of their scores
C10_Witness ==
    /\ cli.pc = "exited"
    /\ argv.format = "text"
    /\ argv.top_k = 5
    /\ cli.result.success
    /\ cli.result.results_count = 11
    /\ cli.result.results[1] = BareRecord
    /\ cli.result.results[2] = FullRecord

====
